---- MODULE Spec2Model ----
(***************************************************************************)
(* Light Scraper desktop application: the Electron main process that owns  *)
(* the scraper worker (ipcMain 'start-scraper' / 'stop-scraper', the       *)
(* ChildProcess 'close' and 'error' callbacks, the window 'closed'         *)
(* callback) and the renderer's handleStart / handleStop.                  *)
(*                                                                         *)
(* JavaScript runs every callback to completion, so each callback is one   *)
(* action.  The renderer and the main process are two event loops joined   *)
(* by two ordered channels (ipcRenderer.invoke requests, and the replies). *)
(* The worker is an independent OS process: it exits when it wants to.     *)
(***************************************************************************)
EXTENDS Integers, Sequences, FiniteSets, TLC

\* ------------------------------------------------------------------ bounds
\* 'start-scraper' invocations handled in one behaviour
MaxStarts == 2
\* invocations the renderer has sent and not yet seen answered; two stops in
\* a row need three (the start they follow is still awaited)
MaxInFlight == 3

\* --------------------------------------------------------------- constants
\* `code` of a 'close' event when the worker was ended by a signal: JS null
NullCode   == -1
\* `code` of the 'close' event that follows a failed spawn (negative errno)
ErrnoCode  == -2
\* a field the renderer left out of the options object (JS undefined)
Undefined  == "<undefined>"

\* ------------------------------------------------------- renderer form state
\* App.tsx useState values that handleStart reads
FormSkus      == {"", "kelly,megaphone", "--verbose"}
FormSkusFile  == {"", "skus.txt"}
FormOutputDir == {"", "out"}
Manufacturers == {"lodes", "vibia"}

AllForms ==
  [manufacturer : Manufacturers, skus : FormSkus, skusFile : FormSkusFile,
   outputDir : FormOutputDir, downloadImages : BOOLEAN, translate : BOOLEAN,
   aiDescriptions : BOOLEAN, verbose : BOOLEAN]

\* the forms the lifecycle specification starts from: nothing entered, and
\* an inline list with image download switched off
JobForms ==
  { f \in AllForms :
      /\ f.manufacturer = "lodes" /\ f.outputDir = "" /\ f.translate
      /\ ~f.aiDescriptions /\ ~f.verbose
      /\ \/ f.skus = "" /\ f.skusFile = "" /\ f.downloadImages
         \/ f.skus = "kelly,megaphone" /\ f.skusFile = "" /\ ~f.downloadImages }

\* JS truthiness of an optional string field
Truthy(s) == s # Undefined /\ s # ""

\* `x || undefined`
OrUndefined(s) == IF s # "" THEN s ELSE Undefined

\* the options object handleStart passes to startScraper
OptionsOf(f) ==
  [manufacturer   |-> f.manufacturer,
   skus           |-> OrUndefined(f.skus),
   skusFile       |-> OrUndefined(f.skusFile),
   outputDir      |-> OrUndefined(f.outputDir),
   noImages       |-> ~f.downloadImages,
   aiDescriptions |-> f.aiDescriptions,
   noTranslate    |-> ~f.translate,
   verbose        |-> f.verbose]

\* the options of a request that carries none ('stop-scraper')
NoOptions ==
  [manufacturer |-> Undefined, skus |-> Undefined, skusFile |-> Undefined,
   outputDir |-> Undefined, noImages |-> FALSE, aiDescriptions |-> FALSE,
   noTranslate |-> FALSE, verbose |-> FALSE]

\* ------------------------------------------------ worker argument list
ArgsPrefix(dev) == IF dev THEN <<"-m", "src.cli">> ELSE <<>>

ArgsManufacturer(o) == <<"--manufacturer", "lodes">>

\* an input choice written with two independent ifs
ArgsInputBoth(o) ==
  (IF Truthy(o.skus) THEN <<"--skus", o.skus>> ELSE <<>>)
    \o (IF Truthy(o.skusFile) THEN <<"--skus-file", o.skusFile>> ELSE <<>>)

ArgsInput(o) ==
  IF Truthy(o.skus) THEN <<"--skus", o.skus>>
  ELSE IF Truthy(o.skusFile) THEN <<"--skus-file", o.skusFile>>
  ELSE <<>>

ArgsOutput(o) == IF Truthy(o.outputDir) THEN <<"--output", o.outputDir>> ELSE <<>>

ArgsNoImages(o) == IF o.noImages THEN <<"--no-images">> ELSE <<>>

ArgsAiDescriptions(o) == IF o.aiDescriptions THEN <<"--ai-descriptions">> ELSE <<>>

\* a --no-translate push guarded by the neighbouring option
ArgsNoTranslateMisread(o) == IF o.aiDescriptions THEN <<"--no-translate">> ELSE <<>>

ArgsNoTranslate(o) == IF o.noTranslate THEN <<"--no-translate">> ELSE <<>>

ArgsVerbose(o) == IF o.verbose THEN <<"--verbose">> ELSE <<>>

\* the `args` array of the 'start-scraper' handler when it reaches spawn()
BuildArgs(o, dev) ==
  ArgsPrefix(dev) \o ArgsManufacturer(o) \o ArgsInput(o) \o ArgsOutput(o)
    \o ArgsNoImages(o) \o ArgsAiDescriptions(o) \o ArgsNoTranslate(o)
    \o ArgsVerbose(o)

\* ------------------------------------------------- worker output text
\* Text is a sequence of one-character strings.  The letters of the model:
\* "a" "b" ordinary text, " " white space, "\n" the line separator, the six
\* characters of the marker, and "{" "s" "}" for JSON text, where "s" stands
\* for the members "type":..,"data":..,"timestamp":.. of a scrape_start event.
Newline == "\n"

WhiteSpace == {" ", Newline}

\* the prefix the 'data' callback of stdout tests for
Marker == <<"E", "V", "E", "N", "T", ":">>

\* String.prototype.split('\n'): the pieces between separators, at least one
RECURSIVE Split(_)
Split(s) ==
  IF \A i \in 1 .. Len(s) : s[i] # Newline THEN <<s>>
  ELSE LET i == CHOOSE k \in 1 .. Len(s) :
                  s[k] = Newline /\ \A m \in 1 .. k - 1 : s[m] # Newline
       IN <<SubSeq(s, 1, i - 1)>> \o Split(SubSeq(s, i + 1, Len(s)))

\* String.prototype.trim()
RECURSIVE Trim(_)
Trim(s) ==
  IF s = <<>> THEN s
  ELSE IF Head(s) \in WhiteSpace THEN Trim(Tail(s))
  ELSE IF s[Len(s)] \in WhiteSpace THEN Trim(SubSeq(s, 1, Len(s) - 1))
  ELSE s

\* String.prototype.startsWith(p)
StartsWith(s, p) == Len(s) >= Len(p) /\ SubSeq(s, 1, Len(p)) = p

\* String.prototype.substring(n)
Substring(s, n) == SubSeq(s, n + 1, Len(s))

\* the text without its white space (JSON ignores it between tokens)
RECURSIVE Squash(_)
Squash(s) ==
  IF s = <<>> THEN s
  ELSE IF Head(s) \in WhiteSpace THEN Squash(Tail(s))
  ELSE <<Head(s)>> \o Squash(Tail(s))

\* the value of a message that carries no event object; also the object {}
NoEvent == [type |-> Undefined, data |-> Undefined, timestamp |-> Undefined]

ScrapeStart == [type |-> "scrape_start", data |-> "total_skus", timestamp |-> "ts"]

\* JSON.parse: the texts of the alphabet that are JSON are {s} and {}
JsonValid(s) == Squash(s) \in {<<"{", "s", "}">>, <<"{", "}">>}

JsonParse(s) == IF Squash(s) = <<"{", "s", "}">> THEN ScrapeStart ELSE NoEvent

\* the arguments of one webContents.send(channel, payload): a string payload
\* is `text`, an object payload is `event`
Payload(channel, text, event) == [channel |-> channel, text |-> text, event |-> event]

\* what the stdout 'data' callback sends for one piece of its split
OnStdoutLine(line) ==
  IF Trim(line) = <<>> THEN <<>>
  ELSE IF StartsWith(line, Marker)
       THEN IF JsonValid(Substring(line, 6))
            THEN <<Payload("scraper-event", <<>>, JsonParse(Substring(line, 6)))>>
            ELSE <<Payload("scraper-log", line, NoEvent)>>
       ELSE <<Payload("scraper-log", line, NoEvent)>>

\* a loop over the pieces that runs from the last piece to the first
RECURSIVE OnStdoutLinesReversed(_)
OnStdoutLinesReversed(lines) ==
  IF lines = <<>> THEN <<>>
  ELSE OnStdoutLinesReversed(Tail(lines)) \o OnStdoutLine(Head(lines))

RECURSIVE OnStdoutLines(_)
OnStdoutLines(lines) ==
  IF lines = <<>> THEN <<>>
  ELSE OnStdoutLine(Head(lines)) \o OnStdoutLines(Tail(lines))

\* what the stdout 'data' callback sends for one chunk
OnStdoutData(chunk) == OnStdoutLines(Split(chunk))

\* what the stderr 'data' callback sends for one chunk
OnStderrData(chunk) == <<Payload("scraper-error", chunk, NoEvent)>>

\* ---------------------------------------------------------------- state
VARIABLES
  isDev,           \* process.env.NODE_ENV === 'development'
  form,            \* renderer: the form fields of App
  isRunning,       \* renderer: App's isRunning
  toast,           \* renderer: kind of the last toast shown
  mainWindow,      \* main: mainWindow !== null
  scraperProcess,  \* main: 0 for null, else the job whose ChildProcess it is
  jobs,            \* one record per handled 'start-scraper' invocation
  nStarts,         \* number of 'start-scraper' invocations handled
  tick,            \* main: job whose failed spawn has its 'error' queued
  ipcQueue,        \* renderer -> main: invoke requests not yet handled
  toRenderer,      \* main -> renderer: invoke replies not yet consumed
  args,            \* argument list of the latest spawn() call
  last,            \* what the latest ipcMain handler returned
  stdoutPipe,      \* worker: text written to stdout, not yet read by main
  stderrPipe,      \* worker: text written to stderr, not yet read by main
  chunks,          \* history: the 'data' chunks main has read, in order
  sent,            \* main -> renderer: webContents.send messages in flight
  nSent,           \* history: number of messages main has sent
  subscriptions,   \* renderer: one record per on...() call of the preload API
  listeners,       \* renderer: ipcRenderer's listener list of every channel
  received,        \* history: the callback invocations, in order
  logs,            \* renderer: App's logs
  shown,           \* renderer: the log lines App's render maps over
  progress,        \* renderer: App's progress
  updater,         \* main: autoUpdater's check cycle and its phase
  statuses,        \* history: the update statuses main has sent the window
  nTimer,          \* history: number of runs of the setInterval callback
  updateReply,     \* history: what the update requests of the window returned
  installed        \* main: quitAndInstall has been called

\* the worker's output and what main has read of it
pipeVars == <<stdoutPipe, stderrPipe, chunks>>

\* the way from webContents.send to the callbacks of the renderer
bridgeVars == <<sent, nSent, subscriptions, listeners, received>>

streamVars == <<pipeVars, bridgeVars>>

\* what App renders besides the form
viewVars == <<logs, shown, progress>>

\* the update checks of the main process
updateVars == <<updater, statuses, nTimer, updateReply, installed>>

vars == <<isDev, form, isRunning, toast, mainWindow, scraperProcess, jobs,
          nStarts, tick, ipcQueue, toRenderer, args, last, streamVars,
          viewVars, updateVars>>

\* the channels the preload API subscribes to
Channels == {"scraper-log", "scraper-error", "scraper-event",
             "update-available", "update-downloaded"}

NoListeners == [ch \in Channels |-> <<>>]

\* a subscription: its channel, and how often its unsubscribe closure ran
Subscription(ch) == [channel |-> ch, unsubs |-> 0]

\* the five subscriptions of App's mount effect, in the order it makes them
AppSubscriptions ==
  <<Subscription("scraper-log"), Subscription("scraper-error"),
    Subscription("scraper-event"), Subscription("update-available"),
    Subscription("update-downloaded")>>

AppListeners ==
  [ch \in Channels |->
     <<CHOOSE i \in 1 .. Len(AppSubscriptions) : AppSubscriptions[i].channel = ch>>]

JobIds == 1 .. MaxStarts

\* exit codes a spawned worker can end with (NullCode: ended by a signal)
ExitCodes == {0, 1, NullCode}

\* outcomes of child_process.spawn(): a live child, a child whose 'error'
\* is queued with process.nextTick (ENOENT, EACCES), or a synchronous throw
SpawnOutcomes == {"ok", "enoent", "throw"}

\* useState({ current: 0, total: 0 })
NoProgress == [current |-> 0, total |-> 0]

\* autoUpdater after app.whenReady: outside development the first check is
\* under way (checkForUpdatesAndNotify), in development none is ever made
StartupCheck(dev) ==
  IF dev THEN [cycle |-> 0, phase |-> "idle"]
         ELSE [cycle |-> 1, phase |-> "checking"]

\* a 'start-scraper' invocation that has not happened yet
NoJob ==
  [promise |-> "none", kind |-> "none", code |-> 0, proc |-> "none",
   killed |-> "no", caller |-> FALSE]

NoResult == [op |-> "none", job |-> 0, result |-> "none"]

Request(op, o) == [op |-> op, options |-> o]

Reply(op, j, kind, code) == [op |-> op, job |-> j, kind |-> kind, code |-> code]

\* invocations of the renderer whose promise is still pending
Awaited == { j \in JobIds : jobs[j].caller }

Outstanding == Len(ipcQueue) + Cardinality(Awaited) + Len(toRenderer)

InitWith(forms, devs) ==
  /\ isDev \in devs
  /\ form \in forms
  /\ isRunning = FALSE
  /\ toast = "none"
  /\ mainWindow = TRUE
  /\ scraperProcess = 0
  /\ jobs = [j \in JobIds |-> NoJob]
  /\ nStarts = 0
  /\ tick = 0
  /\ ipcQueue = <<>>
  /\ toRenderer = <<>>
  /\ args = <<>>
  /\ last = NoResult
  /\ stdoutPipe = <<>>
  /\ stderrPipe = <<>>
  /\ chunks = <<>>
  /\ sent = <<>>
  /\ nSent = 0
  /\ subscriptions = AppSubscriptions
  /\ listeners = AppListeners
  /\ received = <<>>
  /\ logs = <<>>
  /\ shown = <<>>
  /\ progress = NoProgress
  /\ updater = StartupCheck(isDev)
  /\ statuses = <<>>
  /\ nTimer = 0
  /\ updateReply = <<>>
  /\ installed = FALSE

Init == InitWith(JobForms, {FALSE})

InitArgs == InitWith(AllForms, BOOLEAN)

\* ------------------------------------------------------------- renderer
\* a handleStart without the check of skus and skusFile
HandleStartUnvalidated ==
  /\ mainWindow
  /\ ~isRunning
  /\ Outstanding < MaxInFlight
  /\ isRunning' = TRUE
  /\ logs' = <<>>
  /\ shown' = <<>>
  /\ progress' = NoProgress
  /\ ipcQueue' = Append(ipcQueue, Request("start", OptionsOf(form)))
  /\ UNCHANGED <<streamVars, updateVars, isDev, form, toast, mainWindow, scraperProcess, jobs, nStarts,
                 tick, toRenderer, args, last>>

\* handleStart up to its await
HandleStart ==
  /\ mainWindow
  /\ ~isRunning
  /\ IF form.skus = "" /\ form.skusFile = ""
     THEN /\ toast' = "config"
          /\ UNCHANGED <<isRunning, ipcQueue, viewVars>>
     ELSE /\ Outstanding < MaxInFlight
          /\ isRunning' = TRUE
          /\ logs' = <<>>
          /\ shown' = <<>>
          /\ progress' = NoProgress
          /\ ipcQueue' = Append(ipcQueue, Request("start", OptionsOf(form)))
          /\ UNCHANGED toast
  /\ UNCHANGED <<streamVars, updateVars, isDev, form, mainWindow, scraperProcess, jobs, nStarts,
                 tick, toRenderer, args, last>>

\* handleStop up to its await
HandleStop ==
  /\ mainWindow
  /\ isRunning
  /\ Outstanding < MaxInFlight
  /\ ipcQueue' = Append(ipcQueue, Request("stop", NoOptions))
  /\ UNCHANGED <<streamVars, viewVars, updateVars, isDev, form, isRunning, toast, mainWindow, scraperProcess,
                 jobs, nStarts, tick, toRenderer, args, last>>

\* handleStart after its await: the try branch or the catch branch
HandleStartResume ==
  /\ mainWindow
  /\ toRenderer # <<>>
  /\ Head(toRenderer).op = "start"
  /\ toRenderer' = Tail(toRenderer)
  /\ isRunning' = FALSE
  /\ toast' = IF Head(toRenderer).kind = "success" THEN toast ELSE "failed"
  /\ UNCHANGED <<streamVars, viewVars, updateVars, isDev, form, mainWindow, scraperProcess, jobs, nStarts,
                 tick, ipcQueue, args, last>>

\* handleStop after its await
HandleStopResume ==
  /\ mainWindow
  /\ toRenderer # <<>>
  /\ Head(toRenderer).op = "stop"
  /\ toRenderer' = Tail(toRenderer)
  /\ isRunning' = FALSE
  /\ UNCHANGED <<streamVars, viewVars, updateVars, isDev, form, toast, mainWindow, scraperProcess, jobs,
                 nStarts, tick, ipcQueue, args, last>>

\* a settle that does not look whether the promise is still pending
SettleAgain(job, kind, code) ==
  [job EXCEPT !.promise = IF kind = "success" THEN "resolved" ELSE "rejected",
              !.kind = kind, !.code = code, !.caller = FALSE]

\* ----------------------------------------------------------- main process
\* promise settlement: resolve() and reject() act on a pending promise only
Settle(job, kind, code) ==
  IF job.promise = "pending"
  THEN [job EXCEPT !.promise = IF kind = "success" THEN "resolved" ELSE "rejected",
                   !.kind = kind, !.code = code, !.caller = FALSE]
  ELSE job

\* the invoke reply that goes out when the promise of job j gets settled
SettleReplies(j, kind, code) ==
  IF jobs[j].caller
  THEN <<Reply("start", j, kind, code)>>
  ELSE <<>>

\* ChildProcess.kill(): the first request is the one that signals the worker
Kill(job, by) == IF job.killed = "no" THEN [job EXCEPT !.killed = by] ELSE job

\* a 'close' callback that tests `!code` instead of `code === 0`
CloseKindFalsy(code) == IF code \in {0, NullCode} THEN "success" ELSE "exit"

\* what the 'close' callback does with `code`
CloseKind(code) == IF code = 0 THEN "success" ELSE "exit"

\* 'start-scraper' with a live handle: reject('Scraper is already running')
RejectAlreadyRunning(j) ==
  /\ jobs' = [jobs EXCEPT ![j] = [NoJob EXCEPT !.promise = "rejected",
                                               !.kind = "already"]]
  /\ toRenderer' = Append(toRenderer, Reply("start", j, "already", 0))
  /\ last' = [op |-> "start", job |-> j, result |-> "already"]
  /\ UNCHANGED <<scraperProcess, tick, args>>

\* 'start-scraper' from building the arguments to registering the callbacks
SpawnWorker(j, o, outcome) ==
  /\ args' = BuildArgs(o, isDev)
  /\ CASE outcome = "ok" ->
            /\ scraperProcess' = j
            /\ jobs' = [jobs EXCEPT ![j] = [NoJob EXCEPT !.promise = "pending",
                                              !.proc = "running",
                                              !.caller = TRUE]]
            /\ last' = [op |-> "start", job |-> j, result |-> "accepted"]
            /\ UNCHANGED <<tick, toRenderer>>
       [] outcome = "enoent" ->
            /\ scraperProcess' = j
            /\ jobs' = [jobs EXCEPT ![j] = [NoJob EXCEPT !.promise = "pending",
                                              !.proc = "spawnfail",
                                              !.caller = TRUE]]
            /\ tick' = j
            /\ last' = [op |-> "start", job |-> j, result |-> "accepted"]
            /\ UNCHANGED toRenderer
       [] outcome = "throw" ->
            /\ jobs' = [jobs EXCEPT ![j] = [NoJob EXCEPT !.promise = "rejected",
                                              !.kind = "fault"]]
            /\ toRenderer' = Append(toRenderer, Reply("start", j, "fault", 0))
            /\ last' = [op |-> "start", job |-> j, result |-> "threw"]
            /\ UNCHANGED <<scraperProcess, tick>>

\* a start handler that spawns without looking at the handle
StartScraperUnguarded(j, o, outcome) == SpawnWorker(j, o, outcome)

\* ipcMain.handle('start-scraper'): the promise executor
StartScraper(j, o, outcome) ==
  IF scraperProcess # 0
  THEN RejectAlreadyRunning(j)
  ELSE SpawnWorker(j, o, outcome)

\* the main process takes the next 'start-scraper' request
MainStartScraper ==
  /\ tick = 0
  /\ ipcQueue # <<>>
  /\ Head(ipcQueue).op = "start"
  /\ nStarts < MaxStarts
  /\ \E outcome \in SpawnOutcomes :
       StartScraper(nStarts + 1, Head(ipcQueue).options, outcome)
  /\ nStarts' = nStarts + 1
  /\ ipcQueue' = Tail(ipcQueue)
  /\ UNCHANGED <<streamVars, viewVars, updateVars, isDev, form, isRunning, toast, mainWindow>>

\* a stop handler that leaves the handle for the 'close' callback to clear
StopScraperKeepsHandle ==
  IF scraperProcess # 0
  THEN /\ jobs' = [jobs EXCEPT ![scraperProcess] = Kill(@, "stop")]
       /\ toRenderer' = Append(toRenderer, Reply("stop", 0, "stopped", 0))
       /\ last' = [op |-> "stop", job |-> scraperProcess, result |-> "stopped"]
       /\ UNCHANGED scraperProcess
  ELSE /\ toRenderer' = Append(toRenderer, Reply("stop", 0, "notrunning", 0))
       /\ last' = [op |-> "stop", job |-> 0, result |-> "notrunning"]
       /\ UNCHANGED <<scraperProcess, jobs>>

\* a stop handler that reports success whether or not a worker was there
StopScraperAlwaysSuccess ==
  /\ jobs' = IF scraperProcess # 0
             THEN [jobs EXCEPT ![scraperProcess] = Kill(@, "stop")]
             ELSE jobs
  /\ scraperProcess' = 0
  /\ toRenderer' = Append(toRenderer, Reply("stop", 0, "stopped", 0))
  /\ last' = [op |-> "stop", job |-> scraperProcess, result |-> "stopped"]

\* ipcMain.handle('stop-scraper')
StopScraper ==
  IF scraperProcess # 0
  THEN /\ jobs' = [jobs EXCEPT ![scraperProcess] = Kill(@, "stop")]
       /\ scraperProcess' = 0
       /\ toRenderer' = Append(toRenderer, Reply("stop", 0, "stopped", 0))
       /\ last' = [op |-> "stop", job |-> scraperProcess, result |-> "stopped"]
  ELSE /\ toRenderer' = Append(toRenderer, Reply("stop", 0, "notrunning", 0))
       /\ last' = [op |-> "stop", job |-> 0, result |-> "notrunning"]
       /\ UNCHANGED <<scraperProcess, jobs>>

\* the main process takes the next 'stop-scraper' request
MainStopScraper ==
  /\ tick = 0
  /\ ipcQueue # <<>>
  /\ Head(ipcQueue).op = "stop"
  /\ StopScraper
  /\ ipcQueue' = Tail(ipcQueue)
  /\ UNCHANGED <<streamVars, viewVars, updateVars, isDev, form, isRunning, toast, mainWindow, nStarts, tick, args>>

\* scraperProcess.on('close') of job j with exit code `code`
OnClose(j, code) ==
  /\ scraperProcess' = 0
  /\ jobs' = [jobs EXCEPT ![j] = [Settle(@, CloseKind(code), code) EXCEPT !.proc = "closed"]]
  /\ toRenderer' = toRenderer \o SettleReplies(j, CloseKind(code), code)

\* the 'close' event of job j arrives with `code`: any exit code for a worker
\* that ran, the negative errno after a failed spawn
CloseStep(j, code) ==
  /\ tick = 0
  /\ \/ jobs[j].proc = "running" /\ code \in ExitCodes
     \/ jobs[j].proc = "errored" /\ code = ErrnoCode
  /\ OnClose(j, code)
  /\ UNCHANGED <<streamVars, viewVars, updateVars, isDev, form, isRunning, toast, mainWindow, nStarts, tick,
                 ipcQueue, args, last>>

\* the worker of job j ends and its stdio closes
ProcClose(j) == \E code \in ExitCodes \cup {ErrnoCode} : CloseStep(j, code)

\* an 'error' callback that rejects but forgets to clear the handle
OnErrorKeepsHandle(j) ==
  /\ jobs' = [jobs EXCEPT ![j] = [Settle(@, "fault", 0) EXCEPT !.proc = "errored"]]
  /\ toRenderer' = toRenderer \o SettleReplies(j, "fault", 0)
  /\ UNCHANGED scraperProcess

\* scraperProcess.on('error') of job j
OnError(j) ==
  /\ scraperProcess' = 0
  /\ jobs' = [jobs EXCEPT ![j] = [Settle(@, "fault", 0) EXCEPT !.proc = "errored"]]
  /\ toRenderer' = toRenderer \o SettleReplies(j, "fault", 0)

\* spawn() queues the 'error' of a failed spawn with process.nextTick, so
\* the callback runs before the event loop takes any other event: every other
\* main-process action waits for tick = 0
ProcError(j) ==
  /\ tick = j
  /\ OnError(j)
  /\ tick' = 0
  /\ UNCHANGED <<streamVars, viewVars, updateVars, isDev, form, isRunning, toast, mainWindow, nStarts,
                 ipcQueue, args, last>>

\* mainWindow.on('closed'): the worker is killed and the handle kept.  The
\* renderer is gone with its state and its pending invocations; the form is
\* kept as what the user enters again in the next window.
WindowClosed ==
  /\ tick = 0
  /\ mainWindow
  /\ mainWindow' = FALSE
  /\ jobs' = [j \in JobIds |->
               [(IF j = scraperProcess THEN Kill(jobs[j], "window") ELSE jobs[j])
                  EXCEPT !.caller = FALSE]]
  /\ isRunning' = FALSE
  /\ toast' = "none"
  /\ ipcQueue' = <<>>
  /\ toRenderer' = <<>>
  /\ sent' = <<>>
  /\ subscriptions' = <<>>
  /\ listeners' = NoListeners
  /\ received' = <<>>
  /\ logs' = <<>>
  /\ shown' = <<>>
  /\ progress' = NoProgress
  /\ UNCHANGED <<updateVars, isDev, form, scraperProcess, nStarts, tick, args, last,
                 pipeVars, nSent>>

\* app.on('activate') with no window left
Activate ==
  /\ tick = 0
  /\ ~mainWindow
  /\ mainWindow' = TRUE
  /\ subscriptions' = AppSubscriptions
  /\ listeners' = AppListeners
  /\ UNCHANGED <<viewVars, updateVars, isDev, form, isRunning, toast, scraperProcess, jobs, nStarts,
                 tick, ipcQueue, toRenderer, args, last, pipeVars, sent, nSent,
                 received>>

\* ------------------------------------------------------- worker output
\* bound on the 'data' events one stream is read in; the last one allowed
\* takes what is left in the pipe
MaxChunks == 3

\* lines the worker prints on stdout: a message, a message with white space
\* around it, a white-space line, an empty line, an event record, and an
\* event record whose JSON is cut short
StdoutLines ==
  { <<"a", "b">>, <<" ", "a", " ">>, <<" ">>, <<>>,
    Marker \o <<"{", "s", "}">>, Marker \o <<"{", "s">> }

\* lines the worker prints on stderr
StderrLines == { <<"a">>, <<"b">>, <<" ">>, Marker \o <<"{", "s", "}">> }

\* the texts of one line and of two lines out of L, with and without the
\* newline after the last line
TextsOf(L) ==
  LET body == L \cup { x \o <<Newline>> \o y : x \in L, y \in L }
  IN  body \cup { t \o <<Newline>> : t \in body }

\* what a worker writes in its life: a text on one stream, or on both
Outputs ==
  { [out |-> t, err |-> <<>>] : t \in TextsOf(StdoutLines) }
    \cup { [out |-> <<>>, err |-> t] : t \in TextsOf(StderrLines) }
    \cup { [out |-> <<"a", "b", Newline>>, err |-> <<"b", Newline>>] }

Range(q) == { q[i] : i \in 1 .. Len(q) }

\* the chunks read so far from one stream, in order
RECURSIVE ChunksOf(_, _)
ChunksOf(cs, stream) ==
  IF cs = <<>> THEN <<>>
  ELSE (IF Head(cs).stream = stream THEN <<Head(cs).data>> ELSE <<>>)
         \o ChunksOf(Tail(cs), stream)

\* a message on its way to the renderer: the payload, and as history its
\* number and the listeners its channel had when it was sent
Message(p, n) ==
  [channel |-> p.channel, text |-> p.text, event |-> p.event,
   serial |-> n, audience |-> Range(listeners[p.channel])]

\* mainWindow?.webContents.send for each payload of ps, in order
WebContentsSend(ps) ==
  IF mainWindow
  THEN /\ sent' = sent \o [i \in 1 .. Len(ps) |-> Message(ps[i], nSent + i)]
       /\ nSent' = nSent + Len(ps)
  ELSE UNCHANGED <<sent, nSent>>

\* the sizes the next chunk of a pipe can have
ChunkSizes(pipe, stream) ==
  IF Len(ChunksOf(chunks, stream)) + 1 < MaxChunks
  THEN 1 .. Len(pipe)
  ELSE {Len(pipe)}

\* scraperProcess.stdout.on('data')
StdoutData ==
  /\ tick = 0
  /\ \E j \in JobIds : jobs[j].proc = "running"
  /\ stdoutPipe # <<>>
  /\ \E n \in ChunkSizes(stdoutPipe, "stdout") :
       LET data == SubSeq(stdoutPipe, 1, n) IN
       /\ stdoutPipe' = SubSeq(stdoutPipe, n + 1, Len(stdoutPipe))
       /\ chunks' = Append(chunks, [stream |-> "stdout", data |-> data])
       /\ WebContentsSend(OnStdoutData(data))
  /\ UNCHANGED <<viewVars, updateVars, isDev, form, isRunning, toast, mainWindow, scraperProcess, jobs,
                 nStarts, tick, ipcQueue, toRenderer, args, last, stderrPipe,
                 subscriptions, listeners, received>>

\* scraperProcess.stderr.on('data')
StderrData ==
  /\ tick = 0
  /\ \E j \in JobIds : jobs[j].proc = "running"
  /\ stderrPipe # <<>>
  /\ \E n \in ChunkSizes(stderrPipe, "stderr") :
       LET data == SubSeq(stderrPipe, 1, n) IN
       /\ stderrPipe' = SubSeq(stderrPipe, n + 1, Len(stderrPipe))
       /\ chunks' = Append(chunks, [stream |-> "stderr", data |-> data])
       /\ WebContentsSend(OnStderrData(data))
  /\ UNCHANGED <<viewVars, updateVars, isDev, form, isRunning, toast, mainWindow, scraperProcess, jobs,
                 nStarts, tick, ipcQueue, toRenderer, args, last, stdoutPipe,
                 subscriptions, listeners, received>>

\* --------------------------------------------------------- preload bridge
\* a Dispatch that calls every callback ever subscribed to the channel
DispatchToAll(m) ==
  LET ids == SelectSeq([i \in 1 .. Len(subscriptions) |-> i],
                       LAMBDA i : subscriptions[i].channel = m.channel)
  IN  [i \in 1 .. Len(ids) |-> [to |-> ids[i], msg |-> m]]

\* the callback invocations ipcRenderer makes for message m: one for every
\* listener of its channel, in the order they were added
Dispatch(m) ==
  [i \in 1 .. Len(listeners[m.channel]) |->
     [to |-> listeners[m.channel][i], msg |-> m]]

\* the renderer receives the oldest message in flight
Deliver ==
  /\ mainWindow
  /\ sent # <<>>
  /\ received' = received \o Dispatch(Head(sent))
  /\ sent' = Tail(sent)
  /\ UNCHANGED <<viewVars, updateVars, isDev, form, isRunning, toast, mainWindow, scraperProcess, jobs,
                 nStarts, tick, ipcQueue, toRenderer, args, last, pipeVars,
                 nSent, subscriptions, listeners>>

\* bounds on the on...() calls, on the invocations of unsubscribe closures
\* and on the messages of main in one behaviour of the bridge
MaxSubs == 2
MaxUnsubCalls == 2
MaxSends == 2

\* onScraperLog, onScraperError, onScraperEvent, onUpdateAvailable and
\* onUpdateDownloaded: a new listener is added to the channel
Subscribe(ch) ==
  /\ mainWindow
  /\ Len(subscriptions) < MaxSubs
  /\ subscriptions' = Append(subscriptions, Subscription(ch))
  /\ listeners' = [listeners EXCEPT ![ch] = Append(@, Len(subscriptions) + 1)]
  /\ UNCHANGED <<viewVars, updateVars, isDev, form, isRunning, toast, mainWindow, scraperProcess, jobs,
                 nStarts, tick, ipcQueue, toRenderer, args, last, pipeVars,
                 sent, nSent, received>>

\* ipcRenderer.removeAllListeners(channel)
RemoveAllListeners(q, id) == <<>>

\* ipcRenderer.removeListener(channel, listener)
RemoveListener(q, id) == SelectSeq(q, LAMBDA x : x # id)

\* the invocations of unsubscribe closures so far
RECURSIVE SumUnsubs(_)
SumUnsubs(q) == IF q = <<>> THEN 0 ELSE Head(q).unsubs + SumUnsubs(Tail(q))

UnsubCalls == SumUnsubs(subscriptions)

\* the closure an on...() call returned is invoked
Unsubscribe(id) ==
  /\ mainWindow
  /\ id \in 1 .. Len(subscriptions)
  /\ UnsubCalls < MaxUnsubCalls
  /\ listeners' = [listeners EXCEPT ![subscriptions[id].channel] =
                     RemoveListener(@, id)]
  /\ subscriptions' = [subscriptions EXCEPT ![id].unsubs = @ + 1]
  /\ UNCHANGED <<viewVars, updateVars, isDev, form, isRunning, toast, mainWindow, scraperProcess, jobs,
                 nStarts, tick, ipcQueue, toRenderer, args, last, pipeVars,
                 sent, nSent, received>>

\* what main sends on a channel: a line, an error text, an event object, or
\* nothing but the channel name
PayloadOf(ch) ==
  CASE ch = "scraper-log"   -> Payload(ch, <<"a", "b">>, NoEvent)
    [] ch = "scraper-error" -> Payload(ch, <<"a">>, NoEvent)
    [] ch = "scraper-event" -> Payload(ch, <<>>, ScrapeStart)
    [] OTHER                -> Payload(ch, <<>>, NoEvent)

\* main sends one message: a 'data' callback of the worker or an
\* autoUpdater callback reaches its mainWindow?.webContents.send
SendEvent(ch) ==
  /\ tick = 0
  /\ nSent < MaxSends
  /\ WebContentsSend(<<PayloadOf(ch)>>)
  /\ UNCHANGED <<viewVars, updateVars, isDev, form, isRunning, toast, mainWindow, scraperProcess, jobs,
                 nStarts, tick, ipcQueue, toRenderer, args, last, pipeVars,
                 subscriptions, listeners, received>>

\* ------------------------------------------------------------ App's view
\* bounds on the lines in App's log list and on the product_complete events
\* counted, and the largest total_skus a scrape_start event announces
MaxLogs == 4
MaxProducts == 3
MaxTotal == 2

\* the lines a worker's log messages and its error messages carry
LogLines == {<<"a">>, <<"b">>}

ErrorLines == {<<"a">>}

ErrorPrefix == <<"E", "R", "R", "O", "R", ":", " ">>

\* the total_skus of an event whose data has none
NoTotal == -1

\* the events of a worker the view reacts to (total_skus may be missing),
\* and one it ignores
ScraperEvents ==
  { [type |-> "scrape_start", total_skus |-> t, failed |-> 0] :
      t \in (0 .. MaxTotal) \cup {NoTotal} }
    \cup { [type |-> "product_complete", total_skus |-> NoTotal, failed |-> 0],
           [type |-> "product_start", total_skus |-> NoTotal, failed |-> 0] }
    \cup { [type |-> "scrape_complete", total_skus |-> NoTotal, failed |-> f] :
             f \in {0, 1} }

\* a dedupe that keeps the first occurrence of every element only
removeDuplicatesEverywhere(arr) ==
  LET keep == { i \in 1 .. Len(arr) : \A k \in 1 .. i - 1 : arr[k] # arr[i] }
      F[n \in 0 .. Len(arr)] ==
        IF n = 0 THEN <<>>
        ELSE IF n \in keep THEN Append(F[n - 1], arr[n]) ELSE F[n - 1]
  IN  F[Len(arr)]

\* arr.filter((item, i, array) => i === 0 || item !== array[i - 1])
removeDuplicates(arr) ==
  LET keep == { i \in 1 .. Len(arr) : i = 1 \/ arr[i] # arr[i - 1] }
      F[n \in 0 .. Len(arr)] ==
        IF n = 0 THEN <<>>
        ELSE IF n \in keep THEN Append(F[n - 1], arr[n]) ELSE F[n - 1]
  IN  F[Len(arr)]

\* Math.round(x / y * 100) for naturals x and y > 0
RoundPercent(x, y) == (200 * x + y) \div (2 * y)

\* progressPercent
ProgressPercent(p) == IF p.total > 0 THEN RoundPercent(p.current, p.total) ELSE 0

\* the callback of onScraperLog, and the render that follows
OnScraperLog(log) ==
  /\ mainWindow
  /\ Len(logs) < MaxLogs
  /\ logs' = Append(logs, log)
  /\ shown' = removeDuplicates(logs')
  /\ UNCHANGED <<streamVars, updateVars, isDev, form, isRunning, toast, mainWindow,
                 scraperProcess, jobs, nStarts, tick, ipcQueue, toRenderer, args,
                 last, progress>>

\* the callback of onScraperError, and the render that follows
OnScraperError(error) ==
  /\ mainWindow
  /\ Len(logs) < MaxLogs
  /\ logs' = Append(logs, ErrorPrefix \o error)
  /\ shown' = removeDuplicates(logs')
  /\ UNCHANGED <<streamVars, updateVars, isDev, form, isRunning, toast, mainWindow,
                 scraperProcess, jobs, nStarts, tick, ipcQueue, toRenderer, args,
                 last, progress>>

\* handleScraperEvent, the callback of onScraperEvent
HandleScraperEvent(event) ==
  /\ mainWindow
  /\ CASE event.type = "scrape_start" ->
            /\ progress' = [current |-> 0,
                            total |-> IF event.total_skus \in {NoTotal, 0}
                                      THEN 0 ELSE event.total_skus]
            /\ UNCHANGED <<isRunning, toast>>
       [] event.type = "product_complete" ->
            /\ progress.current < MaxProducts
            /\ progress' = [progress EXCEPT !.current = @ + 1]
            /\ UNCHANGED <<isRunning, toast>>
       [] event.type = "scrape_complete" ->
            /\ isRunning' = FALSE
            /\ toast' = IF event.failed > 0 THEN "info" ELSE "success"
            /\ UNCHANGED progress
       [] OTHER -> UNCHANGED <<progress, isRunning, toast>>
  /\ UNCHANGED <<streamVars, updateVars, isDev, form, mainWindow, scraperProcess,
                 jobs, nStarts, tick, ipcQueue, toRenderer, args, last, logs, shown>>

\* ------------------------------------------------------- update checks
\* bounds on the check cycles of one behaviour, on the runs of the interval
\* timer and on the update requests of the window
MaxChecks == 3
MaxTimer == 2
MaxRequests == 3

\* UpdateStatus['status'] values that end a check cycle
TerminalStatuses == {"not-available", "downloaded", "error"}

\* an UpdateStatus of check cycle c
UpdateStatus(c, status) == [cycle |-> c, status |-> status, percent |-> 0]

\* autoUpdater is between the start of a check and its end
MidCycle == updater.phase \in {"checking", "downloading"}

\* mainWindow?.webContents.send(channel) of an autoUpdater callback
SendStatus(channel, status) ==
  /\ WebContentsSend(<<Payload(channel, <<>>, NoEvent)>>)
  /\ statuses' = IF mainWindow
                 THEN Append(statuses, UpdateStatus(updater.cycle, status))
                 ELSE statuses

\* the setInterval callback: autoUpdater.checkForUpdates(), whose result is
\* dropped; autoUpdater answers a call made during a check with the promise
\* of that check and begins a new check otherwise
TimerCheck ==
  /\ ~installed
  /\ ~isDev
  /\ nTimer < MaxTimer
  /\ nTimer' = nTimer + 1
  /\ IF updater.phase = "checking"
     THEN UNCHANGED updater
     ELSE /\ updater.cycle < MaxChecks
          /\ updater' = [cycle |-> updater.cycle + 1, phase |-> "checking"]
  /\ UNCHANGED <<streamVars, viewVars, isDev, form, isRunning, toast, mainWindow,
                 scraperProcess, jobs, nStarts, tick, ipcQueue, toRenderer, args,
                 last, statuses, updateReply, installed>>

\* a checkNow that begins a cycle whatever the status is
CheckNowAlways ==
  /\ ~installed
  /\ mainWindow
  /\ Len(updateReply) < MaxRequests
  /\ updater.cycle < MaxChecks
  /\ updater' = [cycle |-> updater.cycle + 1, phase |-> "checking"]
  /\ statuses' = Append(statuses, UpdateStatus(updater.cycle + 1, "checking"))
  /\ updateReply' = Append(updateReply, "CheckStarted")
  /\ UNCHANGED <<streamVars, viewVars, isDev, form, isRunning, toast, mainWindow,
                 scraperProcess, jobs, nStarts, tick, ipcQueue, toRenderer, args,
                 last, nTimer, installed>>

\* checkNow, the check the window requests with checkForUpdates()
CheckNow ==
  /\ ~installed
  /\ mainWindow
  /\ Len(updateReply) < MaxRequests
  /\ IF MidCycle
     THEN /\ updateReply' = Append(updateReply, "AlreadyChecking")
          /\ UNCHANGED <<updater, statuses>>
     ELSE /\ updater.cycle < MaxChecks
          /\ updater' = [cycle |-> updater.cycle + 1, phase |-> "checking"]
          /\ statuses' = Append(statuses, UpdateStatus(updater.cycle + 1, "checking"))
          /\ updateReply' = Append(updateReply, "CheckStarted")
  /\ UNCHANGED <<streamVars, viewVars, isDev, form, isRunning, toast, mainWindow,
                 scraperProcess, jobs, nStarts, tick, ipcQueue, toRenderer, args,
                 last, nTimer, installed>>

\* an installDownloaded that installs whatever the status is
InstallDownloadedAlways ==
  /\ ~installed
  /\ mainWindow
  /\ Len(updateReply) < MaxRequests
  /\ installed' = TRUE
  /\ updateReply' = Append(updateReply, "InstallTriggered")
  /\ UNCHANGED <<streamVars, viewVars, isDev, form, isRunning, toast, mainWindow,
                 scraperProcess, jobs, nStarts, tick, ipcQueue, toRenderer, args,
                 last, updater, statuses, nTimer>>

\* installDownloaded, the install the window requests with installUpdate()
InstallDownloaded ==
  /\ ~installed
  /\ mainWindow
  /\ Len(updateReply) < MaxRequests
  /\ IF updater.phase = "downloaded"
     THEN /\ installed' = TRUE
          /\ updateReply' = Append(updateReply, "InstallTriggered")
     ELSE /\ updateReply' = Append(updateReply, "NothingDownloaded")
          /\ UNCHANGED installed
  /\ UNCHANGED <<streamVars, viewVars, isDev, form, isRunning, toast, mainWindow,
                 scraperProcess, jobs, nStarts, tick, ipcQueue, toRenderer, args,
                 last, updater, statuses, nTimer>>

\* autoUpdater.on('update-available'); the download begins
OnUpdateAvailable ==
  /\ ~installed
  /\ updater.phase = "checking"
  /\ updater' = [updater EXCEPT !.phase = "downloading"]
  /\ SendStatus("update-available", "available")
  /\ UNCHANGED <<viewVars, isDev, form, isRunning, toast, mainWindow, scraperProcess,
                 jobs, nStarts, tick, ipcQueue, toRenderer, args, last, pipeVars,
                 subscriptions, listeners, received, nTimer, updateReply, installed>>

\* autoUpdater finds no update: no listener of main is registered for it
UpdateNotAvailable ==
  /\ ~installed
  /\ updater.phase = "checking"
  /\ updater' = [updater EXCEPT !.phase = "not-available"]
  /\ UNCHANGED <<streamVars, viewVars, isDev, form, isRunning, toast, mainWindow,
                 scraperProcess, jobs, nStarts, tick, ipcQueue, toRenderer, args,
                 last, statuses, nTimer, updateReply, installed>>

\* autoUpdater.on('update-downloaded')
OnUpdateDownloaded ==
  /\ ~installed
  /\ updater.phase = "downloading"
  /\ updater' = [updater EXCEPT !.phase = "downloaded"]
  /\ SendStatus("update-downloaded", "downloaded")
  /\ UNCHANGED <<viewVars, isDev, form, isRunning, toast, mainWindow, scraperProcess,
                 jobs, nStarts, tick, ipcQueue, toRenderer, args, last, pipeVars,
                 subscriptions, listeners, received, nTimer, updateReply, installed>>

\* autoUpdater.on('error'): console.error, nothing is sent to the window;
\* the check or download that failed is over
OnUpdaterError ==
  /\ ~installed
  /\ MidCycle
  /\ updater' = [updater EXCEPT !.phase = "failed"]
  /\ UNCHANGED <<streamVars, viewVars, isDev, form, isRunning, toast, mainWindow,
                 scraperProcess, jobs, nStarts, tick, ipcQueue, toRenderer, args,
                 last, statuses, nTimer, updateReply, installed>>

\* ------------------------------------------------------- specifications
Next ==
  \/ HandleStart
  \/ HandleStop
  \/ HandleStartResume
  \/ HandleStopResume
  \/ MainStartScraper
  \/ MainStopScraper
  \/ \E j \in JobIds : ProcClose(j)
  \/ \E j \in JobIds : ProcError(j)
  \/ WindowClosed
  \/ Activate

Spec == Init /\ [][Next]_vars

\* the argument list over every form: one start, no worker events
NextArgs ==
  \/ HandleStart
  \/ MainStartScraper

SpecArgs == InitArgs /\ [][NextArgs]_vars

\* a worker has just been spawned; `outputs` is what it may write, and
\* subs and ls are the subscriptions and listeners of the renderer
InitWorker(outputs, subs, ls) ==
  /\ isDev = FALSE
  /\ form \in { f \in JobForms : f.skus # "" }
  /\ isRunning = TRUE
  /\ toast = "none"
  /\ mainWindow = TRUE
  /\ scraperProcess = 1
  /\ jobs = [j \in JobIds |->
               IF j = 1
               THEN [NoJob EXCEPT !.promise = "pending", !.proc = "running",
                                  !.caller = TRUE]
               ELSE NoJob]
  /\ nStarts = 1
  /\ tick = 0
  /\ ipcQueue = <<>>
  /\ toRenderer = <<>>
  /\ args = BuildArgs(OptionsOf(form), isDev)
  /\ last = [op |-> "start", job |-> 1, result |-> "accepted"]
  /\ \E o \in outputs : stdoutPipe = o.out /\ stderrPipe = o.err
  /\ chunks = <<>>
  /\ sent = <<>>
  /\ nSent = 0
  /\ subscriptions = subs
  /\ listeners = ls
  /\ received = <<>>
  /\ logs = <<>>
  /\ shown = <<>>
  /\ progress = NoProgress
  /\ updater = StartupCheck(isDev)
  /\ statuses = <<>>
  /\ nTimer = 0
  /\ updateReply = <<>>
  /\ installed = FALSE

\* the worker is about to write its output, App is mounted
InitStream == InitWorker(Outputs, AppSubscriptions, AppListeners)

\* the output of one worker on its way to App's callbacks
NextStream ==
  \/ StdoutData
  \/ StderrData
  \/ Deliver

SpecStream == InitStream /\ [][NextStream]_vars

\* the page is loaded and nothing has subscribed yet
InitBridge == InitWorker({[out |-> <<>>, err |-> <<>>]}, <<>>, NoListeners)

\* one channel for each kind of payload: a string, an object, none; the
\* other two channels differ from these in nothing but the name
BridgeChannels == {"scraper-log", "scraper-event", "update-available"}

\* the preload API under any calls, with main sending on any channel
NextBridge ==
  \/ \E ch \in BridgeChannels : Subscribe(ch)
  \/ \E id \in 1 .. MaxSubs : Unsubscribe(id)
  \/ \E ch \in BridgeChannels : SendEvent(ch)
  \/ Deliver

SpecBridge == InitBridge /\ [][NextBridge]_vars

\* a worker is running and App is mounted; its messages reach the callbacks
\* of App in any order and number
InitView == InitWorker({[out |-> <<>>, err |-> <<>>]}, AppSubscriptions, AppListeners)

NextView ==
  \/ \E log \in LogLines : OnScraperLog(log)
  \/ \E error \in ErrorLines : OnScraperError(error)
  \/ \E event \in ScraperEvents : HandleScraperEvent(event)
  \/ HandleStart

SpecView == InitView /\ [][NextView]_vars

\* the update checks of an application whose window is open
InitUpdate == InitWith({f \in JobForms : f.skus # ""}, BOOLEAN)

NextUpdate ==
  \/ TimerCheck
  \/ CheckNow
  \/ InstallDownloaded
  \/ OnUpdateAvailable
  \/ UpdateNotAvailable
  \/ OnUpdateDownloaded
  \/ OnUpdaterError

SpecUpdate == InitUpdate /\ [][NextUpdate]_vars

\* ------------------------------------------------------------ properties
\* options of the worker's command line that take the next word as value
ValueFlags == {"-m", "--manufacturer", "--skus", "--skus-file", "--output"}

\* the option words of an argument list, read left to right as the worker's
\* command line reads them: the word after a value option is its value
RECURSIVE FlagsOf(_)
FlagsOf(a) ==
  IF a = <<>> THEN {}
  ELSE IF Head(a) \in ValueFlags /\ Len(a) >= 2
       THEN {Head(a)} \cup FlagsOf(Tail(Tail(a)))
       ELSE {Head(a)} \cup FlagsOf(Tail(a))

\* the value the argument list gives to value option f, as a set
RECURSIVE ValuesOf(_, _)
ValuesOf(a, f) ==
  IF Len(a) < 2 THEN {}
  ELSE IF Head(a) \in ValueFlags
       THEN (IF Head(a) = f THEN {a[2]} ELSE {}) \cup ValuesOf(Tail(Tail(a)), f)
       ELSE ValuesOf(Tail(a), f)

\* workers that were spawned and have not exited
ActiveWorkers == { j \in JobIds : jobs[j].proc = "running" }

\* C1: a start handled while the handle is live is rejected as already
\* running, spawns nothing and leaves the handle and every other job as they
\* were; an accepted start leaves the handle set, so the next start sees it;
\* and a live handle is given up only by stop, an exit event or a spawn error.
StartWhileLiveRejected ==
  /\ [][ MainStartScraper =>
           IF scraperProcess # 0
           THEN /\ last' = [op |-> "start", job |-> nStarts + 1, result |-> "already"]
                /\ jobs'[nStarts + 1].promise = "rejected"
                /\ jobs'[nStarts + 1].kind = "already"
                /\ jobs'[nStarts + 1].proc = "none"
                /\ \A k \in JobIds \ {nStarts + 1} : jobs'[k] = jobs[k]
                /\ UNCHANGED <<scraperProcess, args, tick>>
           ELSE last'.result = "accepted" => scraperProcess' = nStarts + 1 ]_vars
  /\ [][ scraperProcess # 0 /\ scraperProcess' # scraperProcess =>
           \/ MainStopScraper
           \/ \E j \in JobIds : ProcClose(j)
           \/ \E j \in JobIds : ProcError(j) ]_vars

\* C1 witness: a start was just rejected while another job's worker runs
\* under the live handle
StartRejectedWitness ==
  /\ last.op = "start" /\ last.result = "already"
  /\ scraperProcess # 0
  /\ jobs[scraperProcess].proc = "running"
  /\ jobs[last.job].promise = "rejected"

\* C2: at most one worker is spawned and not yet exited.
AtMostOneActiveWorker == Cardinality(ActiveWorkers) <= 1

\* C3: stop on a live job requests the worker's termination and clears the
\* handle in the same step, while the worker has not exited; the start
\* handled next after that stop is not rejected as already running.
StopClearsHandleAtOnce ==
  /\ [][ MainStopScraper /\ scraperProcess # 0 =>
           /\ jobs'[scraperProcess].killed # "no"
           /\ jobs'[scraperProcess].proc = "running"
           /\ scraperProcess' = 0
           /\ last' = [op |-> "stop", job |-> scraperProcess, result |-> "stopped"]
           /\ toRenderer' = Append(toRenderer, Reply("stop", 0, "stopped", 0)) ]_vars
  /\ [][ MainStartScraper /\ last.op = "stop" /\ last.result = "stopped" =>
           last'.result # "already" ]_vars

\* C3 witness: a start was accepted right after a stop whose worker is
\* still running
StartAfterStopWitness ==
  /\ last.op = "start" /\ last.result = "accepted" /\ last.job > 1
  /\ jobs[last.job - 1].killed = "stop"
  /\ jobs[last.job - 1].proc = "running"
  /\ scraperProcess = last.job

\* C4: stop without a live handle answers NotRunning as an ordinary reply
\* and changes nothing of the main process; the stop handled next after a
\* stop that answered Stopped answers NotRunning.
StopWhenIdleIsNotRunning ==
  /\ [][ MainStopScraper /\ scraperProcess = 0 =>
           /\ last' = [op |-> "stop", job |-> 0, result |-> "notrunning"]
           /\ toRenderer' = Append(toRenderer, Reply("stop", 0, "notrunning", 0))
           /\ UNCHANGED <<scraperProcess, jobs, nStarts, tick, mainWindow, args>> ]_vars
  /\ [][ MainStopScraper /\ last.op = "stop" /\ last.result = "stopped" =>
           last'.result = "notrunning" ]_vars

\* C4 witness: two stops in a row after a running job, answered Stopped and
\* then NotRunning, both replies still on their way
StopTwiceWitness ==
  /\ last.op = "stop" /\ last.result = "notrunning"
  /\ Len(toRenderer) >= 2
  /\ toRenderer[Len(toRenderer) - 1].kind = "stopped"
  /\ toRenderer[Len(toRenderer)].kind = "notrunning"

\* C5: the exit of the worker the handle refers to settles that job's
\* pending promise, with success for code 0 and with a failure carrying the
\* code otherwise, and clears the handle; a start handled with the handle
\* clear is not rejected as already running.
LiveExitSettles ==
  /\ [][ \A j \in JobIds, code \in ExitCodes :
           CloseStep(j, code) /\ scraperProcess = j =>
             /\ jobs[j].promise = "pending"
             /\ jobs'[j].promise = IF code = 0 THEN "resolved" ELSE "rejected"
             /\ jobs'[j].kind = IF code = 0 THEN "success" ELSE "exit"
             /\ jobs'[j].code = code
             /\ jobs'[j].proc = "closed"
             /\ scraperProcess' = 0 ]_vars
  /\ [][ MainStartScraper /\ scraperProcess = 0 => last'.result # "already" ]_vars

\* C5 witness: a worker nobody stopped exited with code 1, its start was
\* answered with that failure, and the next start has been accepted
ExitOneThenStartWitness ==
  \E j \in JobIds :
    /\ jobs[j].proc = "closed" /\ jobs[j].killed = "no"
    /\ jobs[j].promise = "rejected" /\ jobs[j].kind = "exit" /\ jobs[j].code = 1
    /\ last = [op |-> "start", job |-> j + 1, result |-> "accepted"]

\* C6: a failed spawn rejects the job's promise with the fault and leaves the
\* handle clear, and no start, stop or window callback runs while the handle
\* still refers to the worker that failed to spawn; a spawn that throws never
\* sets the handle.
SpawnFailureNeverRunning ==
  /\ [][ \A j \in JobIds : ProcError(j) =>
           /\ jobs[j].promise = "pending"
           /\ jobs'[j].promise = "rejected"
           /\ jobs'[j].kind = "fault"
           /\ scraperProcess' = 0 ]_vars
  /\ [][ MainStartScraper \/ MainStopScraper \/ WindowClosed \/ Activate =>
           scraperProcess = 0 \/ jobs[scraperProcess].proc = "running" ]_vars
  /\ [][ MainStartScraper /\ last'.result = "threw" =>
           /\ scraperProcess' = 0
           /\ jobs'[nStarts + 1].promise = "rejected"
           /\ jobs'[nStarts + 1].kind = "fault" ]_vars

\* C6 witness: a spawn failed, its promise is rejected with the fault and the
\* handle is clear
SpawnFailedWitness ==
  \E j \in JobIds :
    /\ jobs[j].proc = "errored"
    /\ jobs[j].promise = "rejected" /\ jobs[j].kind = "fault"
    /\ scraperProcess = 0

\* C7: with neither skus nor skusFile entered, a start request ends in the
\* configuration-error toast at once, sends nothing to the main process, and
\* no worker is ever spawned and no handle ever set.
NoInputNoSpawn ==
  /\ [](form.skus = "" /\ form.skusFile = "" =>
          /\ nStarts = 0 /\ scraperProcess = 0 /\ ipcQueue = <<>>
          /\ ~isRunning /\ args = <<>>
          /\ \A j \in JobIds : jobs[j] = NoJob)
  /\ [][ HandleStart /\ form.skus = "" /\ form.skusFile = "" =>
           toast' = "config" /\ UNCHANGED <<ipcQueue, isRunning>> ]_vars

\* C7 witness: a start was asked for with an empty form and refused
ConfigErrorWitness ==
  /\ form.skus = "" /\ form.skusFile = ""
  /\ toast = "config"
  /\ nStarts = 0

\* C8: a job that stop() terminated does not have its start answered with a
\* failure: no worker killed by stop and ended by that signal has its promise
\* rejected.
StoppedIsNotFailed ==
  \A j \in JobIds :
    jobs[j].killed = "stop" /\ jobs[j].proc = "closed" /\ jobs[j].code = NullCode
      => jobs[j].promise # "rejected"

\* C9: the argument list of a spawn never holds both --skus and --skus-file.
NeverBothInputFlags ==
  args # <<>> => ~({"--skus", "--skus-file"} \subseteq FlagsOf(args))

\* C9 witness: a worker was spawned from a form with both inputs filled in
BothInputsWitness ==
  /\ args # <<>>
  /\ form.skus # "" /\ form.skusFile # ""
  /\ "--skus" \in FlagsOf(args)

\* C10: in the argument list of a spawn each optional flag is present exactly
\* when its option is set, and --output carries the output directory.
OptionalFlagsMatchOptions ==
  args # <<>> =>
    LET o == OptionsOf(form) IN
    /\ "--no-images" \in FlagsOf(args) <=> o.noImages
    /\ "--ai-descriptions" \in FlagsOf(args) <=> o.aiDescriptions
    /\ "--no-translate" \in FlagsOf(args) <=> o.noTranslate
    /\ "--verbose" \in FlagsOf(args) <=> o.verbose
    /\ "--output" \in FlagsOf(args) <=> Truthy(o.outputDir)
    /\ ValuesOf(args, "--output") = IF Truthy(o.outputDir) THEN {o.outputDir} ELSE {}

\* C10 witness: inline items with image download off give --no-images and
\* no --skus-file
SkipImagesWitness ==
  /\ args # <<>>
  /\ form.skus = "kelly,megaphone" /\ form.skusFile = "" /\ ~form.downloadImages
  /\ "--no-images" \in FlagsOf(args)
  /\ "--skus-file" \notin FlagsOf(args)

\* C11: the value the argument list of a spawn gives to --manufacturer is
\* the manufacturer selected in the form, so two forms that differ only in
\* manufacturer give different --manufacturer values.
ManufacturerFlagCarriesSelection ==
  args # <<>> => ValuesOf(args, "--manufacturer") = {OptionsOf(form).manufacturer}

\* ------------------------------------------------ worker output properties
RECURSIVE Flatten(_)
Flatten(q) == IF q = <<>> THEN <<>> ELSE Head(q) \o Flatten(Tail(q))

\* the text the worker has written to stdout / stderr, read or not
StdoutWritten == Flatten(ChunksOf(chunks, "stdout")) \o stdoutPipe

StderrWritten == Flatten(ChunksOf(chunks, "stderr")) \o stderrPipe

\* the pieces of q that are not blank
RECURSIVE NonBlank(_)
NonBlank(q) ==
  IF q = <<>> THEN <<>>
  ELSE (IF Trim(Head(q)) = <<>> THEN <<>> ELSE <<Head(q)>>) \o NonBlank(Tail(q))

\* the messages of q on the channels chs, as payloads
RECURSIVE PayloadsOn(_, _)
PayloadsOn(q, chs) ==
  IF q = <<>> THEN <<>>
  ELSE (IF Head(q).channel \in chs
        THEN <<Payload(Head(q).channel, Head(q).text, Head(q).event)>>
        ELSE <<>>) \o PayloadsOn(Tail(q), chs)

\* what main has sent on the channels chs: first what App's callbacks were
\* called with, then what is still in flight
Emitted(chs) ==
  PayloadsOn([i \in 1 .. Len(received) |-> received[i].msg], chs)
    \o PayloadsOn(sent, chs)

StdoutEmitted == Emitted({"scraper-log", "scraper-event"})

StderrEmitted == Emitted({"scraper-error"})

\* C12: once the whole stdout text has been read, what was sent for it is
\* what would have been sent had it arrived as one chunk, however it was cut.
ChunkBoundaryIndependent ==
  stdoutPipe = <<>> => StdoutEmitted = OnStdoutData(StdoutWritten)

\* the non-blank lines of the text the worker has written to stdout / stderr
StdoutLinesWritten == NonBlank(Split(StdoutWritten))

StderrLinesWritten == NonBlank(Split(StderrWritten))

\* a line that is the marker followed by the JSON of a {type, data,
\* timestamp} object
IsEventLine(line) ==
  /\ StartsWith(line, Marker)
  /\ JsonValid(Substring(line, 6))
  /\ JsonParse(Substring(line, 6)) # NoEvent

\* a line that is the marker followed by text that is not JSON
IsMalformedEventLine(line) ==
  StartsWith(line, Marker) /\ ~JsonValid(Substring(line, 6))

\* C13: when the first non-blank line the worker wrote on stdout is an event
\* record, what was sent for the text begins with exactly one scraper-event
\* carrying the parsed object, followed by what the lines after it give; no
\* scraper-log is sent for the record.
EventLineGivesOneEvent ==
  stdoutPipe = <<>> /\ StdoutLinesWritten # <<>>
    /\ IsEventLine(Head(StdoutLinesWritten))
  => StdoutEmitted =
       <<Payload("scraper-event", <<>>,
                 JsonParse(Substring(Head(StdoutLinesWritten), 6)))>>
         \o OnStdoutLines(Tail(StdoutLinesWritten))

\* C14: when the first non-blank line the worker wrote on stdout is the
\* marker followed by text that is not JSON, what was sent for the text
\* begins with exactly one scraper-log carrying the whole line, marker
\* included, followed by what the lines after it give; the handle and the
\* job are as they were.
MalformedEventLineGivesOneLog ==
  stdoutPipe = <<>> /\ StdoutLinesWritten # <<>>
    /\ IsMalformedEventLine(Head(StdoutLinesWritten))
  => /\ StdoutEmitted =
          <<Payload("scraper-log", Head(StdoutLinesWritten), NoEvent)>>
            \o OnStdoutLines(Tail(StdoutLinesWritten))
     /\ scraperProcess = 1
     /\ jobs[1].proc = "running" /\ jobs[1].promise = "pending"

\* C15: when the first non-blank line the worker wrote on stdout does not
\* start with the marker, what was sent for the text begins with exactly one
\* scraper-log whose text is the line without its leading and trailing white
\* space, followed by what the lines after it give.
PlainLineGivesTrimmedLog ==
  stdoutPipe = <<>> /\ StdoutLinesWritten # <<>>
    /\ ~StartsWith(Head(StdoutLinesWritten), Marker)
  => StdoutEmitted =
       <<Payload("scraper-log", Trim(Head(StdoutLinesWritten)), NoEvent)>>
         \o OnStdoutLines(Tail(StdoutLinesWritten))

\* everything the worker wrote has been read and has reached the callbacks
Quiescent == stdoutPipe = <<>> /\ stderrPipe = <<>> /\ sent = <<>>

\* what App's callbacks were called with on the channels chs
Delivered(chs) ==
  PayloadsOn([i \in 1 .. Len(received) |-> received[i].msg], chs)

\* payload p is the log line or the event of the line
Surfaces(p, line) ==
  IF p.channel = "scraper-event"
  THEN IsEventLine(line) /\ p.event = JsonParse(Substring(line, 6))
  ELSE Trim(p.text) = Trim(line)

\* the payloads of q that are events or carry text that is not blank
RECURSIVE NonBlankItems(_)
NonBlankItems(q) ==
  IF q = <<>> THEN <<>>
  ELSE (IF Head(q).channel # "scraper-event" /\ Trim(Head(q).text) = <<>>
        THEN <<>> ELSE <<Head(q)>>) \o NonBlankItems(Tail(q))

OnePerSegment(items, lines) ==
  /\ Len(NonBlankItems(items)) = Len(lines)
  /\ \A i \in 1 .. Len(lines) : Surfaces(NonBlankItems(items)[i], lines[i])

\* C16: once everything the worker wrote has been read and delivered, the
\* callbacks have been called exactly once for every non-blank line of the
\* stdout text and of the stderr text, the unterminated last line included.
NoOutputLost ==
  Quiescent =>
    /\ OnePerSegment(Delivered({"scraper-log", "scraper-event"}),
                     StdoutLinesWritten)
    /\ OnePerSegment(Delivered({"scraper-error"}), StderrLinesWritten)

\* the texts of the payloads of q
TextsIn(q) == [i \in 1 .. Len(q) |-> q[i].text]

\* C17: once the whole stderr text has been read, one scraper-error was sent
\* for each of its lines, none holding a line separator, and nothing of
\* stderr was sent as a scraper-event.
StderrSplitIntoLines ==
  stderrPipe = <<>> =>
    /\ \A i \in 1 .. Len(StderrEmitted) :
         Newline \notin Range(StderrEmitted[i].text)
    /\ NonBlank(TextsIn(StderrEmitted)) = StderrLinesWritten
    /\ StdoutWritten = <<>> => Emitted({"scraper-event"}) = <<>>

\* JSON.stringify of the objects JsonParse gives
JsonStringify(e) == IF e = ScrapeStart THEN <<"{", "s", "}">> ELSE <<"{", "}">>

\* the stdout text a payload was made from
SourceText(p) ==
  IF p.channel = "scraper-event" THEN Marker \o JsonStringify(p.event) ELSE p.text

\* C18: the log lines and events derived from stdout, in the order the
\* callbacks were called with them and then the order they are in flight,
\* spell the stdout text read so far in the order the worker wrote it
\* (white space aside): an event record written before a log line reaches
\* the callbacks before it.
StdoutOrderPreserved ==
  Squash(Flatten([i \in 1 .. Len(StdoutEmitted) |-> SourceText(StdoutEmitted[i])]))
    = Squash(Flatten(ChunksOf(chunks, "stdout")))

\* C18 witness: the worker wrote an event record and then a log line, and
\* the callbacks were called with the event and then with the line
EventThenLogWitness ==
  /\ StdoutWritten = Marker \o <<"{", "s", "}", Newline, "a", "b">>
  /\ Len(received) = 2
  /\ received[1].msg.channel = "scraper-event"
  /\ received[1].msg.event = ScrapeStart
  /\ received[2].msg.channel = "scraper-log"
  /\ received[2].msg.text = <<"a", "b">>

\* ----------------------------------------------------- bridge properties
\* the subscriptions made so far
SubIds == 1 .. Len(subscriptions)

\* the messages, by number, the callback of subscription id was called with
SerialsTo(q, id) ==
  LET mine == SelectSeq(q, LAMBDA r : r.to = id)
  IN  [i \in 1 .. Len(mine) |-> mine[i].msg.serial]

\* C19: once the unsubscribe closure of a subscription has been invoked its
\* listener is registered nowhere and its callback is never called again;
\* every invocation of the closure, the first and the later ones, leaves the
\* other listeners of every channel registered as they were.
UnsubscribeStopsDelivery ==
  /\ [](\A id \in SubIds :
          subscriptions[id].unsubs >= 1 =>
            \A ch \in Channels : id \notin Range(listeners[ch]))
  /\ [][ \A id \in SubIds :
           subscriptions[id].unsubs >= 1 =>
             SerialsTo(received', id) = SerialsTo(received, id) ]_vars
  /\ [][ \A id \in SubIds :
           subscriptions'[id].unsubs > subscriptions[id].unsubs =>
             \A ch \in Channels :
               listeners'[ch] = SelectSeq(listeners[ch], LAMBDA x : x # id) ]_vars

\* C19 witness: a closure was invoked twice, after its callback had been
\* called once; another listener of the same channel is still registered and
\* was called with a later message too
UnsubscribedTwiceWitness ==
  \E id \in SubIds, other \in SubIds :
    /\ id # other
    /\ subscriptions[id].channel = subscriptions[other].channel
    /\ subscriptions[id].unsubs = 2
    /\ other \in Range(listeners[subscriptions[other].channel])
    /\ Len(SerialsTo(received, id)) = 1
    /\ Len(SerialsTo(received, other)) = 2

\* the callback invocations a step adds
NewlyReceived == SubSeq(received', Len(received) + 1, Len(received'))

\* the sequence q holds each of its elements once and in rising order
Rising(q) == \A i \in 1 .. Len(q) - 1 : q[i] < q[i + 1]

\* C20 as stated: a message is delivered exactly once to each listener its
\* channel had when main sent it and to no other, and every callback gets
\* its messages in the order sent.
DeliveredToSubscribersAtEmission ==
  /\ [][ sent # <<>> /\ sent' = Tail(sent) =>
           /\ {NewlyReceived[i].to : i \in 1 .. Len(NewlyReceived)}
                = Head(sent).audience
           /\ Len(NewlyReceived) = Cardinality(Head(sent).audience) ]_vars
  /\ [](\A id \in SubIds : Rising(SerialsTo(received, id)))

\* C20 amended: a message is delivered, at the moment the renderer receives
\* it, exactly once to each listener then registered on its channel and to
\* no other, callbacks are called at no other moment, and every callback
\* gets its messages in the order sent.
DeliveredToListenersAtDispatch ==
  /\ [][ sent # <<>> /\ sent' = Tail(sent) =>
           /\ {NewlyReceived[i].to : i \in 1 .. Len(NewlyReceived)}
                = Range(listeners[Head(sent).channel])
           /\ Len(NewlyReceived) = Len(listeners[Head(sent).channel])
           /\ \A i \in 1 .. Len(NewlyReceived) : NewlyReceived[i].msg = Head(sent) ]_vars
  /\ [][ received' # received =>
           sent # <<>> /\ sent' = Tail(sent)
             /\ SubSeq(received', 1, Len(received)) = received ]_vars
  /\ [](\A id \in SubIds : Rising(SerialsTo(received, id)))

\* C20 witness: a message reached a listener that subscribed while it was in
\* flight, and a second listener of the channel, subscribed after that
\* delivery, has not been called
LateSubscriberWitness ==
  \E id \in SubIds, late \in SubIds :
    /\ id # late
    /\ subscriptions[id].channel = subscriptions[late].channel
    /\ late \in Range(listeners[subscriptions[late].channel])
    /\ \E i \in 1 .. Len(received) :
         received[i].to = id /\ id \notin received[i].msg.audience
    /\ SerialsTo(received, late) = <<>>
    /\ sent = <<>>

\* ------------------------------------------------- lifecycle properties 2
\* the replies to the start of job j that are on their way to the renderer
StartReplies(q, j) == Len(SelectSeq(q, LAMBDA r : r.op = "start" /\ r.job = j))

\* C26: a 'close' or 'error' event of a worker the handle does not refer to
\* leaves the handle as it is.
StaleExitKeepsHandle ==
  [][ \A j \in JobIds :
        (ProcClose(j) \/ ProcError(j)) /\ scraperProcess # j =>
          scraperProcess' = scraperProcess ]_vars

\* C27: the promise of a start is settled once: a settled promise keeps its
\* outcome and gets no further reply, the step that settles it sends its
\* caller exactly that outcome, at most one reply per start is ever on its
\* way, a worker that has exited has its promise settled, and a rejected
\* start has no worker and only its rejection.
OneOutcomePerStart ==
  /\ [][ \A j \in JobIds :
           jobs[j].promise \in {"resolved", "rejected"} =>
             /\ jobs'[j].promise = jobs[j].promise
             /\ jobs'[j].kind = jobs[j].kind
             /\ jobs'[j].code = jobs[j].code
             /\ StartReplies(toRenderer', j) <= StartReplies(toRenderer, j) ]_vars
  /\ [][ \A j \in JobIds :
           jobs[j].promise = "pending" /\ jobs'[j].promise # "pending"
             /\ jobs[j].caller =>
             toRenderer' = Append(toRenderer,
                                  Reply("start", j, jobs'[j].kind, jobs'[j].code)) ]_vars
  /\ [](\A j \in JobIds :
          /\ StartReplies(toRenderer, j) <= 1
          /\ jobs[j].proc \in {"closed", "errored"} =>
               jobs[j].promise \in {"resolved", "rejected"}
          /\ jobs[j].kind = "already" =>
               jobs[j].proc = "none" /\ jobs[j].promise = "rejected")

\* C27 witness: a worker's 'error' was followed by its 'close', and the one
\* outcome of its start is the fault; another start was ended by stop
ErrorThenCloseWitness ==
  \E j \in JobIds, k \in JobIds :
    /\ jobs[j].proc = "closed" /\ jobs[j].kind = "fault"
    /\ jobs[j].promise = "rejected"
    /\ jobs[k].proc = "closed" /\ jobs[k].killed = "stop"
    /\ jobs[k].promise = "rejected"

\* C30: closing the window with a live handle asks the worker to end and
\* keeps the handle; the handle of a worker the window close killed is given
\* up only at that worker's exit event (or by a stop of the next window), and
\* until then a start is rejected as already running.
WindowCloseKeepsHandleUntilExit ==
  /\ [][ WindowClosed /\ scraperProcess # 0 =>
           /\ jobs'[scraperProcess].killed # "no"
           /\ scraperProcess' = scraperProcess ]_vars
  /\ [][ scraperProcess # 0 /\ jobs[scraperProcess].killed = "window"
           /\ scraperProcess' # scraperProcess =>
           \/ MainStopScraper
           \/ jobs[scraperProcess].proc = "running"
                /\ jobs'[scraperProcess].proc = "closed" ]_vars
  /\ [][ MainStartScraper /\ scraperProcess # 0
           /\ jobs[scraperProcess].killed = "window" =>
           last'.result = "already" ]_vars

\* C28: whenever the main process holds the handle of a live worker that was
\* started from the open window and has not been asked to terminate, the
\* window's isRunning flag is TRUE; in particular no reply to an earlier
\* request resets the flag of a later running job.
LiveHandleImpliesRunning ==
  mainWindow /\ scraperProcess # 0 /\ jobs[scraperProcess].proc = "running"
    /\ jobs[scraperProcess].killed = "no" /\ jobs[scraperProcess].caller
    => isRunning

\* ------------------------------------------------------------ view properties
\* the runs of equal neighbours of arr, each collapsed to one element
RECURSIVE Collapse(_)
Collapse(arr) ==
  IF Len(arr) <= 1 THEN arr
  ELSE LET front == SubSeq(arr, 1, Len(arr) - 1)
       IN  IF arr[Len(arr)] = arr[Len(arr) - 1]
           THEN Collapse(front)
           ELSE Append(Collapse(front), arr[Len(arr)])

NoEqualNeighbours(arr) == \A i \in 2 .. Len(arr) : arr[i] # arr[i - 1]

\* C25: removeDuplicates removes exactly the elements that equal their
\* immediate predecessor and keeps the order of the rest: the rendered list is
\* the log list with every run collapsed, has no two equal neighbours, keeps
\* duplicates that are not neighbours, leaves an empty or one-element list as
\* it is, and applying it again changes nothing.
RemoveDuplicatesCollapsesRuns ==
  /\ shown = removeDuplicates(logs)
  /\ shown = Collapse(logs)
  /\ NoEqualNeighbours(shown)
  /\ NoEqualNeighbours(logs) => shown = logs
  /\ Len(logs) <= 1 => shown = logs
  /\ removeDuplicates(shown) = shown

DuplicatesOfBothKindsWitness ==
  /\ Len(logs) = 4
  /\ logs[1] = logs[2] /\ logs[3] # logs[2] /\ logs[4] = logs[1]
  /\ shown = <<logs[1], logs[3], logs[4]>>

\* C29: whenever the total of the progress counter is positive, the count of
\* completed products is at most the total, so the percentage shown lies in
\* 0 .. 100.
ProgressWithinTotal ==
  progress.total > 0 =>
    /\ progress.current <= progress.total
    /\ ProgressPercent(progress) \in 0 .. 100

\* ---------------------------------------------------------- update properties
\* C21: a check requested while autoUpdater is checking, whether the window
\* or the interval timer requests it and whichever of them began the cycle,
\* begins no second cycle, and the window's request is answered
\* AlreadyChecking.
CheckWhileCheckingJoins ==
  /\ [][ (TimerCheck \/ CheckNow) /\ updater.phase = "checking" =>
           updater' = updater /\ statuses' = statuses ]_vars
  /\ [][ CheckNow /\ updater.phase = "checking" =>
           updateReply' = Append(updateReply, "AlreadyChecking") ]_vars

CheckedTwiceWhileCheckingWitness ==
  /\ updater = [cycle |-> 1, phase |-> "checking"]
  /\ nTimer > 0
  /\ \E i \in 1 .. Len(updateReply) : updateReply[i] = "AlreadyChecking"

\* C22: installDownloaded triggers the install only when the status is
\* Downloaded; in every other status it answers NothingDownloaded and changes
\* nothing else.
InstallOnlyWhenDownloaded ==
  [][ InstallDownloaded =>
        IF updater.phase = "downloaded"
        THEN installed' /\ updateReply' = Append(updateReply, "InstallTriggered")
        ELSE /\ updateReply' = Append(updateReply, "NothingDownloaded")
             /\ UNCHANGED <<installed, updater, statuses, nTimer, streamVars,
                            viewVars, isDev, form, isRunning, toast, mainWindow,
                            scraperProcess, jobs, nStarts, tick, ipcQueue,
                            toRenderer, args, last>> ]_vars

RefusedThenInstalledWitness ==
  /\ installed
  /\ \E i \in 1 .. Len(updateReply) : updateReply[i] = "NothingDownloaded"

\* C23: the statuses sent to the window are well-formed per check cycle: the
\* first status of every cycle is Checking, the percent of its Downloading
\* statuses never decreases, nothing of a cycle follows its Downloaded, Error
\* or NotAvailable, and a cycle's first status comes only after a terminal
\* status of the cycle before.
StatusesWellFormed ==
  \A i \in 1 .. Len(statuses) :
    /\ (i = 1 \/ statuses[i - 1].cycle # statuses[i].cycle) =>
          statuses[i].status = "checking"
    /\ i > 1 =>
          /\ statuses[i - 1].cycle <= statuses[i].cycle
          /\ statuses[i - 1].cycle = statuses[i].cycle =>
                /\ statuses[i - 1].status \notin TerminalStatuses
                /\ statuses[i].status = "downloading" /\ statuses[i - 1].status = "downloading"
                     => statuses[i - 1].percent <= statuses[i].percent
          /\ statuses[i - 1].cycle # statuses[i].cycle =>
                statuses[i - 1].status \in TerminalStatuses

\* C24: an error of autoUpdater during a check or a download is sent to the
\* window as the status Error of the cycle and ends the cycle, and the form,
\* the view and the worker's state stay as they are.
UpdaterErrorIsReported ==
  [][ OnUpdaterError =>
        /\ statuses' = Append(statuses, UpdateStatus(updater.cycle, "error"))
        /\ updater'.phase \notin {"checking", "downloading"}
        /\ UNCHANGED <<form, isRunning, toast, mainWindow, scraperProcess, jobs,
                       nStarts, tick, ipcQueue, toRenderer, args, last, viewVars>> ]_vars
====
